---- MODULE Spec2Model ----
(***************************************************************************)
(* Model of caldav_sync.sync_todos (src/caldav_sync.py): one pass reads    *)
(* the configuration, fetches the calendar's todos, builds the uid map and *)
(* then reconciles the local todos one by one against that map.            *)
(*                                                                         *)
(* The CalDAV server is the variable `store`; the parsed in-memory copies  *)
(* the pass works on are the vtodo fields of `server_map`; every call made *)
(* on the collaborator is appended to `calls`, every reported action to    *)
(* `actions`. A call that raises leaves the server as it was; to_ical of a *)
(* parsed component does not raise.                                        *)
(*                                                                         *)
(* Spec runs one pass over one calendar; SpecPasses and SpecRerun run      *)
(* passes one after another; SpecRemote starts from a calendar with        *)
(* several objects, SpecDue from every shape of a DUE value, SpecCalendars *)
(* from an account with several calendars and a configured name.           *)
(***************************************************************************)
EXTENDS Naturals, Sequences, FiniteSets, TLC

\* ---------------------------------------------------------------- bounds
MaxLocal == 2       \* longest list of local todos handed to one pass
MaxStore == 2       \* number of objects the calendar accepts
MaxPasses == 2      \* number of passes run one after the other
MaxCalendars == 2   \* most calendars an account is drawn with

\* ---------------------------------------------------------------- values
\* Python's None, as a value of the same sort as the strings it stands among.
None == "<None>"

NEEDS_ACTION == "NEEDS-ACTION"
Statuses == {NEEDS_ACTION, "COMPLETED", "CANCELLED", "IN-PROCESS"}

\* A DUE value as the component hands it out: None, or a wrapper whose .dt
\* is a date, a datetime or something else; bare dates and datetimes too.
\* secs is the time of day, 0 being midnight.
NoDue == [wrapped |-> FALSE, kind |-> "none", day |-> 0, secs |-> 0]
Date(d) == [wrapped |-> FALSE, kind |-> "date", day |-> d, secs |-> 0]
DateTime(d, s) == [wrapped |-> FALSE, kind |-> "datetime", day |-> d, secs |-> s]
Other == [wrapped |-> FALSE, kind |-> "other", day |-> 0, secs |-> 0]
Wrap(v) == [v EXCEPT !.wrapped = TRUE]

\* datetime(val.year, val.month, val.day): midnight of that date.
Midnight(v) == DateTime(v.day, 0)

\* _normalize_dt, were the wrapper's date handed back as it is (line 55).
_normalize_dt_date_kept(val) ==
    IF val = NoDue THEN NoDue
    ELSE IF ~val.wrapped /\ val.kind = "datetime" THEN val
    ELSE IF ~val.wrapped /\ val.kind = "date" THEN Midnight(val)
    ELSE IF val.wrapped /\ val.kind = "date" THEN Date(val.day)
    ELSE IF val.wrapped /\ val.kind = "datetime" THEN DateTime(val.day, val.secs)
    ELSE NoDue

\* _normalize_dt, were lines 45-49 missing: only wrappers are understood.
_normalize_dt_wrappers_only(val) ==
    IF val = NoDue THEN NoDue
    ELSE IF val.wrapped /\ val.kind = "date" THEN Midnight(val)
    ELSE IF val.wrapped /\ val.kind = "datetime" THEN DateTime(val.day, val.secs)
    ELSE NoDue

_normalize_dt(val) ==
    IF val = NoDue THEN NoDue
    ELSE IF ~val.wrapped /\ val.kind = "datetime" THEN val
    ELSE IF ~val.wrapped /\ val.kind = "date" THEN Midnight(val)
    ELSE IF val.wrapped
         THEN IF val.kind \in {"datetime", "date"}
              THEN IF val.kind = "date"
                   THEN Midnight(val)
                   ELSE DateTime(val.day, val.secs)
              ELSE NoDue
    ELSE NoDue

\* str(x) of a text property is its text; str(None) is the word None.
Str(x) == IF x = None THEN "None" ELSE x

\* ---------------------------------------------------------------- inputs
\* The keys sync_todos reads with os.environ[...], and the environments a
\* pass is run in: complete, or with one of the keys unset.
RequiredKeys == {"CALDAV_URL", "CALDAV_USERNAME", "CALDAV_PASSWORD"}
Environments == {RequiredKeys} \cup {RequiredKeys \ {k} : k \in RequiredKeys}

LocalUids == {None, "", "a", "b"}
LocalSummaries == {None, "HW1"}
LocalDues == {NoDue, Wrap(Date(1))}
LocalStatuses == {"COMPLETED"}

\* A local icalendar Todo, as gradescope.make_todo builds it: it lacks a
\* summary or a due, or neither. One todo without UID is enough: its other
\* properties are computed and dropped.
Todo == {t \in [uid : LocalUids, summary : LocalSummaries, due : LocalDues,
                status : LocalStatuses] :
            /\ t.summary # None \/ t.due # NoDue
            /\ t.uid = None => (t.summary # None /\ t.due # NoDue)}

RemoteUids == {"a"}
RemoteSummaries == {"", "HW1"}
RemoteDues == {NoDue, Wrap(DateTime(1, 0)), Wrap(DateTime(1, 9))}

\* An object of the calendar on the server; ok says its data holds a VTODO
\* that parses.
ServerTodo == [ok : {TRUE}, uid : RemoteUids, summary : RemoteSummaries,
               due : RemoteDues, status : Statuses]

\* What the calendar object offers for creating, a todo object for writing
\* back (the hasattr probes of sync_todos), and whether calendar.todos()
\* gives the todos (it may be missing or raise; the events tried instead
\* hold no VTODO). All three come from the caldav client library in use; the
\* probe chains never meet in one iteration, and these libraries take every
\* branch of each.
Libraries == {[calendar |-> "add_todo", obj |-> "save", todos |-> TRUE],
              [calendar |-> "add_event", obj |-> "put", todos |-> TRUE],
              [calendar |-> "save", obj |-> "_put", todos |-> TRUE],
              [calendar |-> "none", obj |-> "url", todos |-> TRUE],
              [calendar |-> "add_todo", obj |-> "none", todos |-> TRUE],
              [calendar |-> "add_todo", obj |-> "save", todos |-> FALSE]}
NoShape == [calendar |-> None, obj |-> None, todos |-> FALSE]

\* The calendars principal.calendars() returns. A calendar object offers
\* get_properties or not; calling it gives a dict holding the display name
\* (props) or raises; name is the object's name attribute, None when the
\* library did not fill it.
CalendarObjects ==
    {[get_properties |-> "dict", props |-> "Work", name |-> None],
     [get_properties |-> "dict", props |-> "work", name |-> "Work"],
     [get_properties |-> "absent", props |-> None, name |-> "Home"],
     [get_properties |-> "raises", props |-> None, name |-> "Work"],
     [get_properties |-> "raises", props |-> None, name |-> None]}
TheCalendar == [get_properties |-> "dict", props |-> "Work", name |-> None]

\* The values os.environ.get("CALDAV_CALENDAR_NAME") can give.
CalendarNames == {None, "", "Work", "Home"}

RECURSIVE SeqsUpTo(_, _)
SeqsUpTo(S, n) ==
    IF n = 0 THEN {<<>>}
    ELSE LET shorter == SeqsUpTo(S, n - 1)
         IN  shorter \cup {Append(q, x) : q \in {r \in shorter : Len(r) = n - 1}, x \in S}

\* ---------------------------------------------------------------- state
VARIABLES
    environ,        \* the configuration keys set in os.environ
    calendar_name,  \* the value of CALDAV_CALENDAR_NAME, None when unset
    calendars,      \* the calendars of the account, as the server lists them
    calendar,       \* the position in calendars of the pass's calendar
    store,          \* the objects of the pass's calendar on the server
    before,         \* the store as it was when the pass was called
    todos,          \* the argument of sync_todos
    pass,           \* the number of the pass
    pc,             \* "idle", "loop", "done" (returned) or "raised"
    error,          \* the exception that ended the pass, None if none
    shape,          \* the methods the pass's calendar and its objects offer
    server_map,     \* uid -> [obj, vtodo]
    i,              \* position of the loop in todos
    actions,        \* the list sync_todos returns
    calls           \* the calls made on the collaborator, in order

vars == <<environ, calendar_name, calendars, calendar, store, before, todos, pass, pc, error, shape, server_map, i, actions, calls>>

NoPayload == [uid |-> None, summary |-> None, due |-> NoDue, status |-> None]
Call(op, k, obj, data, result) ==
    [op |-> op, i |-> k, obj |-> obj, data |-> data, result |-> result]

EmptyMap == [u \in {} |-> 0]

\* ---------------------------------------------------------------- helpers
\* _extract_vtodo_and_calendar: the parsed VTODO of a server object.
Vtodo(s) == [uid |-> s.uid, summary |-> s.summary, due |-> s.due, status |-> s.status]

\* Lines 185-194, were the try around the loop and not inside it: the map
\* holds what was added before the first object that does not parse.
RECURSIVE BuildMapUntilFailure(_, _)
BuildMapUntilFailure(server_todos, k) ==
    IF k = 0 THEN [u \in {} |-> 0]
    ELSE LET m == BuildMapUntilFailure(server_todos, k - 1)
             s == server_todos[k]
         IN  IF \E j \in 1..k : ~server_todos[j].ok THEN m
             ELSE IF s.uid # None /\ s.uid # ""
             THEN [u \in DOMAIN m \cup {s.uid} |->
                      IF u = s.uid THEN [obj |-> k, vtodo |-> Vtodo(s)] ELSE m[u]]
             ELSE m

\* Lines 185-194, were line 191 a setdefault: the first object of a uid stays.
RECURSIVE BuildMapKeepFirst(_, _)
BuildMapKeepFirst(server_todos, k) ==
    IF k = 0 THEN [u \in {} |-> 0]
    ELSE LET m == BuildMapKeepFirst(server_todos, k - 1)
             s == server_todos[k]
         IN  IF s.ok /\ s.uid # None /\ s.uid # "" /\ s.uid \notin DOMAIN m
             THEN [u \in DOMAIN m \cup {s.uid} |->
                      IF u = s.uid THEN [obj |-> k, vtodo |-> Vtodo(s)] ELSE m[u]]
             ELSE m

\* Lines 185-194, were the loop left after its first object.
BuildMapFirstOnly(server_todos, k) ==
    IF k = 0 \/ ~server_todos[1].ok \/ server_todos[1].uid \in {None, ""}
    THEN [u \in {} |-> 0]
    ELSE [u \in {server_todos[1].uid} |-> [obj |-> 1, vtodo |-> Vtodo(server_todos[1])]]

\* Lines 185-194: the map after the first k fetched objects.
RECURSIVE BuildMap(_, _)
BuildMap(server_todos, k) ==
    IF k = 0 THEN EmptyMap
    ELSE LET m == BuildMap(server_todos, k - 1)
             s == server_todos[k]
             uid == IF s.uid # None THEN Str(s.uid) ELSE None
         IN  IF s.ok /\ uid # None /\ uid # ""
             THEN [u \in DOMAIN m \cup {uid} |->
                      IF u = uid THEN [obj |-> k, vtodo |-> Vtodo(s)] ELSE m[u]]
             ELSE m

LocalUid(local) == IF local.uid # None THEN Str(local.uid) ELSE None
LocalSummary(local) == IF local.summary # None THEN Str(local.summary) ELSE ""
LocalDue(local) == _normalize_dt(local.due)

ServerSummary(vtodo) == IF vtodo.summary # None THEN Str(vtodo.summary) ELSE ""
ServerDue(vtodo) == _normalize_dt(vtodo.due)

\* Lines 137-139: every required key can be read.
ConfiguredButPassword(env) == RequiredKeys \ {"CALDAV_PASSWORD"} \subseteq env
Configured(env) == RequiredKeys \subseteq env

\* Line 203.
MissingUidIsEmpty(local_uid) == local_uid = ""
MissingUid(local_uid) == local_uid = None

\* Lines 238-241.
SameSummary(vtodo, local) == ServerSummary(vtodo) = LocalSummary(local)
SameDueRaw(vtodo, local) == vtodo.due = local.due
SameDue(vtodo, local) ==
    \/ ServerDue(vtodo) = LocalDue(local)
    \/ (ServerDue(vtodo) = NoDue /\ LocalDue(local) = NoDue)
SameOrAlreadyMarked(vtodo, local) ==
    \/ SameSummary(vtodo, local) /\ SameDue(vtodo, local)
    \/ vtodo.status = NEEDS_ACTION
Same(vtodo, local) == SameSummary(vtodo, local) /\ SameDue(vtodo, local)

\* local.to_ical() and server_cal.to_ical(): the component's properties.
ToIcalWithoutDue(c) == [uid |-> c.uid, summary |-> c.summary, due |-> NoDue, status |-> c.status]
ToIcal(c) == [uid |-> c.uid, summary |-> c.summary, due |-> c.due, status |-> c.status]

\* The object the server keeps for a payload it accepted.
Stored(data) == [ok |-> TRUE, uid |-> data.uid, summary |-> data.summary,
                 due |-> data.due, status |-> data.status]

\* One entry of the returned list; info is the reason, the error text or the
\* reported server status, None when the entry has none.
Action(uid, action, info) == [uid |-> uid, action |-> action, info |-> info]

\* ---------------------------------------------------------------- Init
Init ==
    /\ environ \in Environments
    /\ calendar_name = None
    /\ calendars \in {<<>>, <<TheCalendar>>}
    /\ calendar = 0
    /\ store \in SeqsUpTo(ServerTodo, 1)
    /\ before = store
    /\ todos \in SeqsUpTo(Todo, MaxLocal)
    /\ pass = 1
    /\ shape = NoShape
    /\ pc = "idle"
    /\ error = None
    /\ server_map = EmptyMap
    /\ i = 0
    /\ actions = <<>>
    /\ calls = <<>>

\* ---------------------------------------------------------------- actions
\* Lines 153-167: the name the loop reads for calendar c.
DisplayName(c) ==
    IF c.get_properties = "dict" THEN c.props ELSE c.name

\* Line 168.
NameMatchesIgnoringCase(name, wanted) ==
    name # None /\ name # "" /\ (name = wanted \/ {name, wanted} = {"work", "Work"})
NameMatches(name, wanted) == name # None /\ name # "" /\ name = wanted

\* Lines 152-170: the first calendar from position k on whose name matches,
\* 0 when the loop ends without one.
RECURSIVE Scan(_, _, _)
Scan(cals, wanted, k) ==
    IF k > Len(cals) THEN 0
    ELSE IF NameMatches(DisplayName(cals[k]), wanted) THEN k
    ELSE Scan(cals, wanted, k + 1)

\* Lines 150-172.
Select(cals, wanted) ==
    LET found == IF wanted # None /\ wanted # "" THEN Scan(cals, wanted, 1) ELSE 0
    IN  IF found = 0 THEN 1 ELSE found

\* Lines 137-139: os.environ[...] raises KeyError for a missing key.
ConfigMissing ==
    /\ pc = "idle"
    /\ ~Configured(environ)
    /\ pc' = "raised"
    /\ error' = "KeyError"
    /\ UNCHANGED <<environ, calendar_name, calendars, calendar, store, before, todos,
                   pass, shape, server_map, i, actions, calls>>

\* Lines 146-148: the account has no calendar.
NoCalendars ==
    /\ pc = "idle"
    /\ Configured(environ)
    /\ calendars = <<>>
    /\ pc' = "raised"
    /\ error' = "RuntimeError"
    /\ calls' = <<Call("principal.calendars", 0, 0, NoPayload, "ok")>>
    /\ UNCHANGED <<environ, calendar_name, calendars, calendar, store, before, todos,
                   pass, shape, server_map, i, actions>>

\* Lines 137-196: the calendar is found, its todos are fetched (an empty list
\* when calendar.todos() fails) and the uid map is built. With nothing to
\* iterate over, the pass returns its empty list (line 283).
Begin ==
    /\ pc = "idle"
    /\ Configured(environ)
    /\ calendars # <<>>
    /\ calendar' = Select(calendars, calendar_name)
    /\ \E library \in Libraries :
         LET server_todos == IF library.todos THEN store ELSE <<>>
         IN  /\ shape' = library
             /\ server_map' = BuildMap(server_todos, Len(server_todos))
             /\ calls' = <<Call("principal.calendars", 0, 0, NoPayload, "ok"),
                           Call("calendar.todos", 0, 0, NoPayload,
                                IF library.todos THEN "ok" ELSE "Exception")>>
    /\ actions' = <<>>
    /\ i' = 1
    /\ pc' = IF Len(todos) = 0 THEN "done" ELSE "loop"
    /\ before' = store
    /\ UNCHANGED <<environ, calendar_name, calendars, store, todos, pass, error>>

InLoop == pc = "loop" /\ i <= Len(todos)

IteratedUnlessFailed(act, newCalls, newStore, newMap) ==
    /\ actions' = IF act.action \in {"create_failed", "update_failed"}
                  THEN actions ELSE Append(actions, act)
    /\ calls' = calls \o newCalls
    /\ store' = newStore
    /\ server_map' = newMap
    /\ i' = i + 1
    /\ pc' = IF i = Len(todos) THEN "done" ELSE "loop"
    /\ UNCHANGED <<environ, calendar_name, calendars, calendar, before, todos, pass,
                   error, shape>>

\* What one iteration leaves behind; after the last one the pass returns
\* the list (line 283).
Iterated(act, newCalls, newStore, newMap) ==
    /\ actions' = Append(actions, act)
    /\ calls' = calls \o newCalls
    /\ store' = newStore
    /\ server_map' = newMap
    /\ i' = i + 1
    /\ pc' = IF i = Len(todos) THEN "done" ELSE "loop"
    /\ UNCHANGED <<environ, calendar_name, calendars, calendar, before, todos, pass,
                   error, shape>>

\* Lines 203-205.
Skip ==
    /\ InLoop
    /\ MissingUid(LocalUid(todos[i]))
    /\ Iterated(Action(None, "skipped", "local todo missing UID"), <<>>, store, server_map)

\* Lines 207-230: the uid is not in the map.
CreateMethodAssumed(offered) ==
    IF offered = "add_event" THEN "calendar.add_event"
    ELSE IF offered = "save" THEN "calendar.save"
    ELSE "calendar.add_todo"
CreateMethod(offered) ==
    IF offered = "add_todo" THEN "calendar.add_todo"
    ELSE IF offered = "add_event" THEN "calendar.add_event"
    ELSE IF offered = "save" THEN "calendar.save"
    ELSE None

Create ==
    /\ InLoop
    /\ ~MissingUid(LocalUid(todos[i]))
    /\ LocalUid(todos[i]) \notin DOMAIN server_map
    /\ LET local_uid == LocalUid(todos[i])
           ical_bytes == ToIcal(todos[i])
           method == CreateMethod(shape.calendar)
       IN  IF method = None
           THEN Iterated(Action(local_uid, "create_attempted", None), <<>>, store, server_map)
           ELSE \/ /\ Len(store) < MaxStore
                   /\ Iterated(Action(local_uid, "created", None),
                               <<Call(method, i, calendar, ical_bytes, "ok")>>,
                               Append(store, Stored(ical_bytes)), server_map)
                \/ Iterated(Action(local_uid, "create_failed", "Exception"),
                            <<Call(method, i, calendar, ical_bytes, "Exception")>>,
                            store, server_map)

\* Lines 232-244: same uid, same summary, same due.
Preserve ==
    /\ InLoop
    /\ ~MissingUid(LocalUid(todos[i]))
    /\ LocalUid(todos[i]) \in DOMAIN server_map
    /\ LET local_uid == LocalUid(todos[i])
           server_vtodo == server_map[local_uid].vtodo
       IN  /\ Same(server_vtodo, todos[i])
           /\ Iterated(Action(local_uid, "preserved_server_status", Str(server_vtodo.status)),
                       <<>>, store, server_map)

\* Line 248, were a task somebody closed left closed.
MarkedUnlessClosed(vtodo) ==
    IF vtodo.status \in {"COMPLETED", "CANCELLED"} THEN vtodo
    ELSE [vtodo EXCEPT !.status = NEEDS_ACTION]

\* Line 248: server_vtodo['STATUS'] = 'NEEDS-ACTION'.
Marked(vtodo) == [vtodo EXCEPT !.status = NEEDS_ACTION]

\* Results a call on the collaborator can have: it returns or it raises;
\* for the first save, raising TypeError is a case of its own (line 257).
Results == {"ok", "Exception"}
SaveResults == {"ok", "TypeError", "Exception"}

\* The server object after a write-back that returned.
WrittenToAll(objs, obj, data) ==
    [o \in DOMAIN objs |-> IF o = obj THEN Stored(data)
                           ELSE [objs[o] EXCEPT !.status = data.status]]
WrittenWithoutDue(objs, obj, data) ==
    [objs EXCEPT ![obj] = Stored([data EXCEPT !.due = NoDue])]
Written(objs, obj, data) == [objs EXCEPT ![obj] = Stored(data)]

\* Lines 246-281: same uid, but summary or due differ.
Update ==
    /\ InLoop
    /\ ~MissingUid(LocalUid(todos[i]))
    /\ LocalUid(todos[i]) \in DOMAIN server_map
    /\ LET local_uid == LocalUid(todos[i])
           obj == server_map[local_uid].obj
           server_vtodo == Marked(server_map[local_uid].vtodo)
           updated_ical == ToIcal(server_vtodo)
           newMap == [server_map EXCEPT ![local_uid].vtodo = server_vtodo]
           done == Action(local_uid, "set_needs_action", None)
           attempted == Action(local_uid, "set_needs_action_attempted", None)
           failed(e) == Action(local_uid, "update_failed", e)
           call(op, r) == Call(op, i, obj, updated_ical, r)
       IN  /\ ~Same(server_map[local_uid].vtodo, todos[i])
           /\ CASE shape.obj = "save" ->
                     \E r1 \in SaveResults :
                        IF r1 = "ok"
                        THEN Iterated(done, <<call("save", r1)>>,
                                      Written(store, obj, updated_ical), newMap)
                        ELSE IF r1 = "TypeError"
                        THEN \* lines 257-260: save is called a second time,
                             \* and whatever it raises is a failure
                             \E r2 \in Results :
                                IF r2 = "ok"
                                THEN Iterated(done, <<call("save", r1), call("save", r2)>>,
                                              Written(store, obj, updated_ical), newMap)
                                ELSE Iterated(failed(r2), <<call("save", r1), call("save", r2)>>,
                                              store, newMap)
                        ELSE Iterated(failed(r1), <<call("save", r1)>>, store, newMap)
                [] shape.obj \in {"put", "_put"} ->
                     \E r \in Results :
                        IF r = "ok"
                        THEN Iterated(done, <<call(shape.obj, r)>>,
                                      Written(store, obj, updated_ical), newMap)
                        ELSE Iterated(failed(r), <<call(shape.obj, r)>>, store, newMap)
                [] shape.obj = "url" ->
                     \* lines 269-276: raw PUT; what it raises is swallowed
                     \E r \in Results :
                        IF r = "ok"
                        THEN Iterated(done, <<call("client.put", r)>>,
                                      Written(store, obj, updated_ical), newMap)
                        ELSE Iterated(attempted, <<call("client.put", r)>>, store, newMap)
                [] OTHER -> Iterated(attempted, <<>>, store, newMap)

Next == ConfigMissing \/ NoCalendars \/ Begin \/ Skip \/ Create \/ Preserve \/ Update

Spec == Init /\ [][Next]_vars

\* ------------------------------------------------- passes one after another
\* The script is run again over the same assignments: nothing is kept from
\* the pass before but what the server holds.
PassTodo == {t \in Todo : t.uid \in {None, "a", "b"} /\ t.due # NoDue}
PassServerTodo == {s \in ServerTodo : s.summary = "HW1" /\ s.due # NoDue
                                      /\ s.status \in {NEEDS_ACTION, "CANCELLED"}}

Rerun ==
    /\ pc = "done"
    /\ pass < MaxPasses
    /\ pass' = pass + 1
    /\ pc' = "idle"
    /\ before' = store
    /\ shape' = NoShape
    /\ server_map' = EmptyMap
    /\ i' = 0
    /\ actions' = <<>>
    /\ calls' = <<>>
    /\ calendar' = 0
    /\ UNCHANGED <<environ, calendar_name, calendars, store, todos, error>>

\* Between two passes somebody marks a task on the server.
OutOfBand ==
    /\ pc = "idle"
    /\ pass > 1
    /\ \E obj \in 1..Len(store), status \in {"COMPLETED", "CANCELLED"} :
          /\ store[obj].status # status
          /\ store' = [store EXCEPT ![obj].status = status]
    /\ before' = store'
    /\ UNCHANGED <<environ, calendar_name, calendars, calendar, todos, pass, pc, error,
                   shape, server_map, i, actions, calls>>

InitPasses ==
    /\ Init
    /\ store \in SeqsUpTo(PassServerTodo, 1)
    /\ todos \in SeqsUpTo(PassTodo, MaxLocal)

NextPasses == Next \/ Rerun \/ OutOfBand

SpecPasses == InitPasses /\ [][NextPasses]_vars

\* ------------------------------------------------- several remote records
\* A calendar that holds up to two objects when the pass starts: objects
\* whose data does not parse, objects that share a UID, objects no local
\* todo names. calendar.todos() hands them out in the order of store.
RemoteTodo == [ok : BOOLEAN, uid : {"a", "b"}, summary : {"HW1"},
               due : {Wrap(DateTime(1, 0)), Wrap(DateTime(1, 9))},
               status : {"COMPLETED", NEEDS_ACTION}]
RemoteLocal == {t \in Todo : t.uid \in {None, "a", "b"} /\ t.summary # None
                               /\ t.due # NoDue}

InitRemote ==
    /\ environ \in Environments
    /\ calendar_name = None
    /\ calendars \in {<<>>, <<TheCalendar>>}
    /\ calendar = 0
    /\ store \in SeqsUpTo(RemoteTodo, 2)
    /\ before = store
    /\ todos \in SeqsUpTo(RemoteLocal, MaxLocal)
    /\ pass = 1
    /\ shape = NoShape
    /\ pc = "idle"
    /\ error = None
    /\ server_map = EmptyMap
    /\ i = 0
    /\ actions = <<>>
    /\ calls = <<>>

SpecRemote == InitRemote /\ [][Next]_vars

\* ------------------------------------------------- every shape of a DUE
\* The values a DUE can be handed to _normalize_dt as: None, a bare date or
\* datetime, something else, and a wrapper around each of them.
Bare == {NoDue, Other, Date(1), Date(2), DateTime(1, 0), DateTime(1, 9)}
AllDues == Bare \cup {Wrap(v) : v \in Bare}

DueLocal ==
    {[uid |-> "a", summary |-> "HW1", due |-> d, status |-> "COMPLETED"] : d \in AllDues}
    \cup {[uid |-> u, summary |-> "HW1", due |-> Wrap(Date(1)), status |-> "COMPLETED"] :
             u \in {None, "b"}}
DueRemote == [ok : {TRUE}, uid : {"a"}, summary : {"HW1"},
              due : {NoDue, Wrap(Other), Wrap(DateTime(1, 0)), DateTime(1, 9), Date(2)},
              status : {"COMPLETED"}]

InitDue ==
    /\ environ \in Environments
    /\ calendar_name = None
    /\ calendars \in {<<>>, <<TheCalendar>>}
    /\ calendar = 0
    /\ store \in SeqsUpTo(DueRemote, 1)
    /\ before = store
    /\ todos \in SeqsUpTo(DueLocal, MaxLocal)
    /\ pass = 1
    /\ shape = NoShape
    /\ pc = "idle"
    /\ error = None
    /\ server_map = EmptyMap
    /\ i = 0
    /\ actions = <<>>
    /\ calls = <<>>

SpecDue == InitDue /\ [][Next]_vars

\* ------------------------------------------------- several calendars
\* An account with up to MaxCalendars calendars and a configured name, set
\* or not; the store is the chosen calendar's.
CalLocal == {t \in Todo : t.uid \in {None, "a", "b"} /\ t.summary # None
                            /\ t.due # NoDue}
CalRemote == [ok : {TRUE}, uid : {"a"}, summary : {"HW1"},
              due : {Wrap(DateTime(1, 0)), Wrap(DateTime(1, 9))},
              status : {"COMPLETED"}]

InitCalendars ==
    /\ environ \in Environments
    /\ calendar_name \in CalendarNames
    /\ calendars \in SeqsUpTo(CalendarObjects, MaxCalendars)
    /\ calendar = 0
    /\ store \in SeqsUpTo(CalRemote, 1)
    /\ before = store
    /\ todos \in SeqsUpTo(CalLocal, MaxLocal)
    /\ pass = 1
    /\ shape = NoShape
    /\ pc = "idle"
    /\ error = None
    /\ server_map = EmptyMap
    /\ i = 0
    /\ actions = <<>>
    /\ calls = <<>>

SpecCalendars == InitCalendars /\ [][Next]_vars

\* ------------------------------------------------- running the script again
\* Passes one after another over local todos of every kind of UID, the
\* empty one included.
RerunLocal == {t \in Todo : t.summary # None /\ t.due # NoDue}

InitRerun ==
    /\ environ \in Environments
    /\ calendar_name = None
    /\ calendars \in {<<>>, <<TheCalendar>>}
    /\ calendar = 0
    /\ store \in SeqsUpTo(PassServerTodo, 1)
    /\ before = store
    /\ todos \in SeqsUpTo(RerunLocal, MaxLocal)
    /\ pass = 1
    /\ shape = NoShape
    /\ pc = "idle"
    /\ error = None
    /\ server_map = EmptyMap
    /\ i = 0
    /\ actions = <<>>
    /\ calls = <<>>

SpecRerun == InitRerun /\ [][NextPasses]_vars

\* ================================================================ claims
\* The words of the specification, stated without the code's operators.
Absent == <<>>
SpecTitle(x) == IF x = None THEN "" ELSE x
Instant(v) ==
    IF v.kind = "date" THEN <<v.day, 0>>
    ELSE IF v.kind = "datetime" THEN <<v.day, v.secs>>
    ELSE Absent

Processed == 1..Len(actions)
CallsFor(k) == {c \in 1..Len(calls) : calls[c].i = k}
HasId(k) == todos[k].uid # None /\ todos[k].uid # ""
InMap(k) == HasId(k) /\ todos[k].uid \in DOMAIN server_map
ObjOf(k) == server_map[todos[k].uid].obj
RemoteBefore(k) == before[ObjOf(k)]
ProxyOf(k) == server_map[todos[k].uid].vtodo
SameContent(k) ==
    /\ SpecTitle(RemoteBefore(k).summary) = SpecTitle(todos[k].summary)
    /\ Instant(RemoteBefore(k).due) = Instant(todos[k].due)
Matches(k) == InMap(k) /\ SameContent(k)
Differs(k) == InMap(k) /\ ~SameContent(k)
NotInMap(k) == HasId(k) /\ todos[k].uid \notin DOMAIN server_map
UniqueId(k) == \A j \in 1..Len(todos) : j # k => todos[j].uid # todos[k].uid
CreateOps == {"calendar.add_todo", "calendar.add_event", "calendar.save"}
ObjectWriteOps == {"save", "put", "_put"}
WriteOps == ObjectWriteOps \cup {"client.put"}

\* C1: a local record whose id is in the remote map with an equal title and
\* an equal normalized due gets the action preserved_server_status, which
\* reports the status the remote record has when the record is processed;
\* no call is made for it; and (local ids being unique, as the data model
\* assumes) the remote record, its status included, is after the pass what
\* it was before, whatever the status was.
C1_PreserveKeepsStatus ==
    \A k \in Processed :
        Matches(k) =>
            /\ actions[k].action = "preserved_server_status"
            /\ actions[k].uid = todos[k].uid
            /\ CallsFor(k) = {}
            /\ k = Len(actions) => actions[k].info = ProxyOf(k).status
            /\ UniqueId(k) =>
                  /\ actions[k].info = RemoteBefore(k).status
                  /\ ProxyOf(k).status = RemoteBefore(k).status
                  /\ store[ObjOf(k)] = RemoteBefore(k)

\* Scenario 1 of the specification: a date against the date-time at its
\* midnight, the remote status CANCELLED.
C1_Witness ==
    /\ pc = "done"
    /\ \E k \in Processed :
          /\ Matches(k) /\ UniqueId(k)
          /\ todos[k].due.kind = "date"
          /\ RemoteBefore(k).due.kind = "datetime"
          /\ RemoteBefore(k).status = "CANCELLED"
          /\ actions[k].info = "CANCELLED"

\* The results of the calls made for record k, in the order they were made.
FinalCall(k) == calls[CHOOSE c \in CallsFor(k) : \A d \in CallsFor(k) : d <= c]
Unwritten(k) == \A c \in CallsFor(k) : calls[c].result # "ok"
Content(r) == [uid |-> r.uid, summary |-> r.summary, due |-> r.due, status |-> r.status]

C4_MissingIdSkipped ==
    /\ \A k \in Processed :
          todos[k].uid = None =>
              /\ actions[k] = Action(None, "skipped", "local todo missing UID")
              /\ CallsFor(k) = {}
    /\ Cardinality({k \in Processed : actions[k].action = "skipped"})
         = Cardinality({k \in Processed : todos[k].uid = None})

C4_Witness ==
    /\ pc = "done"
    /\ Len(todos) = 2
    /\ todos[1].uid = None
    /\ todos[2].uid = "a"
    /\ actions[1].action = "skipped"
    /\ Len(calls) > 2

\* C5: a local record whose UID is the empty string is skipped like one
\* without a UID: no other action, no create call.
C5_EmptyIdSkipped ==
    \A k \in Processed :
        todos[k].uid = "" =>
            /\ actions[k].action = "skipped"
            /\ CallsFor(k) = {}

\* C8: the returned list holds one action per local record, in the order of
\* the local records: the k-th action carries the uid of the k-th record,
\* and no uid when that record was skipped.
C8_OneActionPerRecord ==
    /\ pc = "loop" => Len(actions) = i - 1
    /\ pc = "done" => Len(actions) = Len(todos)
    /\ \A k \in Processed :
          actions[k].uid = IF actions[k].action = "skipped" THEN None ELSE todos[k].uid

C8_Witness ==
    /\ pc = "done"
    /\ Len(todos) = 2
    /\ actions[1].action \in {"create_failed", "update_failed"}
    /\ actions[2].action # "skipped"
    /\ todos[1].uid # todos[2].uid

\* C9: at most one create or write-back call is made for a local record,
\* also when that call raises.
C9_NoRetry ==
    \A k \in Processed : Cardinality(CallsFor(k)) <= 1

\* C6: within a pass no remote record's title or due changes, on the server
\* or in its proxy; a status changes only to NEEDS-ACTION, and only when a
\* local record of the pass with that id differed from the remote record in
\* title or normalized due; every write-back carries the remote title and due
\* and the status NEEDS-ACTION. This holds in every pass of a sequence.
C6_OnlyStatusToNeedsAction ==
    pc \in {"loop", "done"} =>
        /\ Len(store) >= Len(before)
        /\ \A obj \in 1..Len(before) :
              /\ [store[obj] EXCEPT !.status = before[obj].status] = before[obj]
              /\ store[obj].status # before[obj].status =>
                    /\ store[obj].status = NEEDS_ACTION
                    /\ \E k \in Processed : Differs(k) /\ ObjOf(k) = obj
        /\ \A u \in DOMAIN server_map :
              LET vtodo == server_map[u].vtodo
                  was == Content(before[server_map[u].obj])
              IN  /\ [vtodo EXCEPT !.status = was.status] = was
                  /\ vtodo.status # was.status =>
                        /\ vtodo.status = NEEDS_ACTION
                        /\ \E k \in Processed : Differs(k) /\ todos[k].uid = u
        /\ \A c \in 1..Len(calls) :
              calls[c].op \in WriteOps =>
                  /\ calls[c].obj \in 1..Len(before)
                  /\ calls[c].data =
                        [Content(before[calls[c].obj]) EXCEPT !.status = NEEDS_ACTION]

\* In a second pass, over a store the first pass added to, a status marked
\* in between is forced to NEEDS-ACTION.
C6_Witness ==
    /\ pass = 2
    /\ pc = "done"
    /\ Len(before) = 2
    /\ \E obj \in 1..Len(before) :
          /\ before[obj].status = "COMPLETED"
          /\ store[obj].status = NEEDS_ACTION

\* C7: a create or save call that raises for a record gives that record a
\* failed action, create_failed or update_failed.
C7_FailureReported ==
    \A k \in Processed :
        (\E c \in CallsFor(k) :
            /\ calls[c].op \in CreateOps \cup ObjectWriteOps
            /\ calls[c].result # "ok")
        => actions[k].action \in {"create_failed", "update_failed"}

\* C10: with a required key unset the pass raises KeyError before anything
\* else: no call on the collaborator, no map, no action, the store untouched.
C10_ConfigMissingAborts ==
    ~(RequiredKeys \subseteq environ) =>
        /\ pc \in {"idle", "raised"}
        /\ pc = "raised" => error = "KeyError"
        /\ calls = <<>>
        /\ actions = <<>>
        /\ server_map = EmptyMap
        /\ store = before

C10_Witness ==
    /\ pc = "raised"
    /\ "CALDAV_PASSWORD" \notin environ
    /\ Len(todos) = 2
    /\ Len(store) = 1

\* ---- claims about several remote records (SpecRemote)
Fetched == pc \in {"loop", "done"} /\ shape.todos
Decodable(obj) == before[obj].ok /\ before[obj].uid \notin {None, ""}
LastWithId(obj) ==
    \A later \in (obj + 1)..Len(before) :
        Decodable(later) => before[later].uid # before[obj].uid
Mapped(obj) == \E u \in DOMAIN server_map : server_map[u].obj = obj
OnlyUndecodable(k) ==
    /\ \E obj \in 1..Len(before) : ~before[obj].ok /\ before[obj].uid = todos[k].uid
    /\ \A obj \in 1..Len(before) : before[obj].uid = todos[k].uid => ~before[obj].ok

\* C11: a remote record that does not decode is left out of the id map; the
\* pass goes on (it raises only for its configuration or for an account
\* without calendars, before anything is fetched) and every other remote
\* record that decodes is in the map as it would be without the undecodable
\* one. A local record whose id only an undecodable remote record carries is
\* not in the map and gets an action of the create family with at most one
\* call, a create call; no call is made on the undecodable record and it is
\* on the server what it was.
C11_UndecodableLeftOut ==
    /\ pc = "raised" => error \in {"KeyError", "RuntimeError"} /\ Len(calls) <= 1
    /\ Fetched =>
          \A obj \in 1..Len(before) :
              /\ ~before[obj].ok => ~Mapped(obj)
              /\ (Decodable(obj) /\ LastWithId(obj)) =>
                    /\ before[obj].uid \in DOMAIN server_map
                    /\ server_map[before[obj].uid].obj = obj
    /\ pc \in {"loop", "done"} =>
          \A obj \in 1..Len(before) :
              ~before[obj].ok =>
                  /\ store[obj] = before[obj]
                  /\ \A c \in 1..Len(calls) :
                        calls[c].op \in WriteOps => calls[c].obj # obj
    /\ \A k \in Processed :
          (HasId(k) /\ OnlyUndecodable(k)) =>
              /\ NotInMap(k)
              /\ actions[k].action \in {"created", "create_failed", "create_attempted"}
              /\ \A c \in CallsFor(k) : calls[c].op \in CreateOps

\* The one remote record carries id a and does not decode: the local a is
\* created next to it, a second object with that id, and nothing is raised.
C11_Witness ==
    /\ pc = "done"
    /\ error = None
    /\ Len(before) = 1
    /\ ~before[1].ok /\ before[1].uid = "a"
    /\ server_map = EmptyMap
    /\ \E k \in Processed :
          /\ todos[k].uid = "a"
          /\ actions[k].action = "created"
    /\ Len(store) = 2
    /\ store[1] = before[1]
    /\ store[2].ok /\ store[2].uid = "a"

CollaboratorOps == {"principal.calendars", "calendar.todos"} \cup CreateOps \cup WriteOps
Unnamed(obj) == \A k \in 1..Len(todos) : todos[k].uid # before[obj].uid

\* C12: a remote record whose id no local record of the pass carries is not
\* visited: no action carries its id, no write-back call is made on it, it
\* is on the server after the pass what it was before (title, due and
\* status), and so is its proxy; nothing is deleted: the collaborator is
\* only asked to list, create and write back, and every record that was on
\* the server is still there.
C12_UnnamedRemoteUntouched ==
    pc \in {"loop", "done"} =>
        /\ Len(store) >= Len(before)
        /\ \A c \in 1..Len(calls) : calls[c].op \in CollaboratorOps
        /\ \A obj \in 1..Len(before) :
              Unnamed(obj) =>
                  /\ store[obj] = before[obj]
                  /\ \A k \in Processed : actions[k].uid # before[obj].uid
                  /\ \A c \in 1..Len(calls) :
                        calls[c].op \in WriteOps => calls[c].obj # obj
                  /\ \A u \in DOMAIN server_map :
                        server_map[u].obj = obj =>
                            server_map[u].vtodo = Content(before[obj])

\* Remote a and b, local a only, differing: a is marked, b is as it was.
C12_Witness ==
    /\ pc = "done"
    /\ Len(before) = 2
    /\ before[1].ok /\ before[2].ok
    /\ before[1].uid = "a" /\ before[2].uid = "b"
    /\ Len(todos) = 1
    /\ todos[1].uid = "a"
    /\ actions[1].action = "set_needs_action"
    /\ store[1].status = NEEDS_ACTION
    /\ Unnamed(2)
    /\ "b" \in DOMAIN server_map
    /\ store[2] = before[2]

\* The list calendar.todos() gave the pass, and the same records enumerated
\* in another order.
Enumerated == IF shape.todos THEN before ELSE <<>>
Orders(n) == {p \in [1..n -> 1..n] : \A x, y \in 1..n : x # y => p[x] # p[y]}
Permuted(server_todos, p) == [j \in 1..Len(server_todos) |-> server_todos[p[j]]]
MapOf(server_todos) == BuildMap(server_todos, Len(server_todos))
UniqueRemoteIds ==
    \A x, y \in 1..Len(before) :
        (x # y /\ before[x].ok /\ before[y].ok) => before[x].uid # before[y].uid

\* What lines 203-244 decide for a local todo, given the fetched list.
Decision(server_todos, local) ==
    LET m == MapOf(server_todos)
        local_uid == LocalUid(local)
    IN  IF MissingUid(local_uid) THEN "skip"
        ELSE IF local_uid \notin DOMAIN m THEN "create"
        ELSE IF Same(m[local_uid].vtodo, local) THEN "preserve"
        ELSE "mark"
Family(decision) ==
    CASE decision = "skip" -> {"skipped"}
      [] decision = "create" -> {"created", "create_failed", "create_attempted"}
      [] decision = "preserve" -> {"preserved_server_status"}
      [] decision = "mark" -> {"set_needs_action", "update_failed",
                               "set_needs_action_attempted"}

\* C13: with unique ids among the remote records, every order in which
\* they can be enumerated gives the same id map (the same record, with the
\* same content, under each id) and so the same decision for every local
\* record; the action of each local record of the pass is of the family of
\* that decision, and a remote record's status after the pass is
\* NEEDS-ACTION where a write-back for a local record with its id returned
\* and what it was everywhere else, wherever the record stood in the list.
C13_OrderIndependent ==
    (pc \in {"loop", "done"} /\ UniqueRemoteIds) =>
        /\ \A p \in Orders(Len(Enumerated)) :
              LET other == Permuted(Enumerated, p)
              IN  /\ DOMAIN MapOf(other) = DOMAIN MapOf(Enumerated)
                  /\ \A u \in DOMAIN MapOf(other) :
                        /\ MapOf(other)[u].vtodo = MapOf(Enumerated)[u].vtodo
                        /\ other[MapOf(other)[u].obj] = Enumerated[MapOf(Enumerated)[u].obj]
                  /\ \A k \in 1..Len(todos) :
                        Decision(other, todos[k]) = Decision(Enumerated, todos[k])
        /\ \A k \in Processed :
              actions[k].action \in Family(Decision(Enumerated, todos[k]))
        /\ \A obj \in 1..Len(before) :
              store[obj].status =
                 IF \E k \in Processed : /\ before[obj].ok
                                          /\ todos[k].uid = before[obj].uid
                                          /\ actions[k].action = "set_needs_action"
                 THEN NEEDS_ACTION
                 ELSE before[obj].status

\* The record the first local todo names is enumerated last, the record of
\* the second first: the one is preserved, the other marked.
C13_Witness ==
    /\ pc = "done"
    /\ UniqueRemoteIds
    /\ Len(before) = 2 /\ before[1].ok /\ before[2].ok
    /\ Len(todos) = 2
    /\ todos[1].uid = before[2].uid
    /\ todos[2].uid = before[1].uid
    /\ actions[1].action = "preserved_server_status"
    /\ actions[2].action = "set_needs_action"
    /\ store[1].status = NEEDS_ACTION
    /\ store[2].status = before[2].status

\* ---- claims about the due normalizer (SpecDue)
DuesInState ==
    {todos[k].due : k \in 1..Len(todos)} \cup {store[o].due : o \in 1..Len(store)}
        \cup {before[o].due : o \in 1..Len(before)}

\* The case table of the specification: absent, or the instant <<day, time
\* of day>>; a wrapper counts as what it holds.
Expected(v) ==
    IF v.kind = "datetime" THEN <<v.day, v.secs>>
    ELSE IF v.kind = "date" THEN <<v.day, 0>>
    ELSE Absent
NoneOrDatetime(result) ==
    result = NoDue \/ (~result.wrapped /\ result.kind = "datetime")
Reading(result) == IF result = NoDue THEN Absent ELSE <<result.day, result.secs>>

\* C14: _normalize_dt gives for every shape of input what the case table
\* says: None for None; a datetime unchanged; for a date the datetime at its
\* midnight; for a wrapper what it gives for the date or datetime inside;
\* None for a wrapper around anything else and for any other value. The
\* result is always None or a bare datetime. The reconciler compares by
\* these results: a record found in the map is preserved exactly when the
\* titles are equal and the table gives the same for both dues.
C14_NormalizeCaseTable ==
    /\ \A v \in DuesInState :
          /\ NoneOrDatetime(_normalize_dt(v))
          /\ Reading(_normalize_dt(v)) = Expected(v)
          /\ v = NoDue => _normalize_dt(v) = NoDue
          /\ (~v.wrapped /\ v.kind = "datetime") => _normalize_dt(v) = v
          /\ (~v.wrapped /\ v.kind = "date") => _normalize_dt(v) = DateTime(v.day, 0)
          /\ (v.wrapped /\ v.kind \in {"date", "datetime"}) =>
                _normalize_dt(v) = _normalize_dt([v EXCEPT !.wrapped = FALSE])
          /\ v.kind \notin {"date", "datetime"} => _normalize_dt(v) = NoDue
    /\ \A k \in Processed :
          InMap(k) =>
              (actions[k].action = "preserved_server_status" <=>
                  /\ SpecTitle(RemoteBefore(k).summary) = SpecTitle(todos[k].summary)
                  /\ Expected(RemoteBefore(k).due) = Expected(todos[k].due))

\* A wrapped date on the one side, the bare datetime at its midnight on the
\* other, and next to it a wrapper around something that is no date.
C14_Witness ==
    /\ pc = "done"
    /\ Len(todos) = 2
    /\ Len(before) = 1
    /\ before[1].due = Wrap(DateTime(1, 0))
    /\ todos[1].due = Date(1)
    /\ todos[2].due = Wrap(Other)
    /\ todos[1].uid = "a" /\ todos[2].uid = "a"
    /\ actions[1].action = "preserved_server_status"
    /\ actions[2].action = "set_needs_action"

\* C15: normalizing a result of _normalize_dt again gives that result, for
\* every shape of input; and two dues that both normalize to None count as
\* equal in the comparison of line 239: with equal titles the record is
\* preserved.
C15_NormalizeIdempotent ==
    /\ \A v \in DuesInState :
          _normalize_dt(_normalize_dt(v)) = _normalize_dt(v)
    /\ \A k \in Processed :
          (/\ InMap(k)
           /\ _normalize_dt(todos[k].due) = NoDue
           /\ _normalize_dt(RemoteBefore(k).due) = NoDue
           /\ SpecTitle(RemoteBefore(k).summary) = SpecTitle(todos[k].summary))
          => actions[k].action = "preserved_server_status"

\* No due on the server, a due that is no date locally: both are None after
\* normalizing and the record is preserved; a wrapped datetime next to it.
C15_Witness ==
    /\ pc = "done"
    /\ Len(before) = 1
    /\ before[1].due = NoDue
    /\ Len(todos) = 2
    /\ todos[1].uid = "a" /\ todos[1].due = Wrap(Other)
    /\ actions[1].action = "preserved_server_status"
    /\ todos[2].due = Wrap(DateTime(1, 9))
    /\ _normalize_dt(_normalize_dt(todos[2].due)) = DateTime(1, 9)

\* ---- claims about the choice of the calendar (SpecCalendars)
NameConfigured == calendar_name # None /\ calendar_name # ""
WithThatName ==
    {k \in 1..Len(calendars) : DisplayName(calendars[k]) = calendar_name}
Target ==
    IF NameConfigured /\ WithThatName # {}
    THEN CHOOSE k \in WithThatName : \A j \in WithThatName : k <= j
    ELSE 1

\* C16: the calendar of a pass is the first one the server listed whose
\* display name (the displayname property where get_properties gives it,
\* the object's name otherwise) is exactly the configured name; it is the
\* first one listed when no name is configured (unset or empty) or no
\* display name is the configured one; every create call of the pass goes
\* to that calendar. An account without calendars ends the pass with
\* RuntimeError before any choice.
C16_FirstExactNameElseFirst ==
    /\ pc \in {"loop", "done"} =>
          /\ calendars # <<>>
          /\ calendar = Target
          /\ \A c \in 1..Len(calls) :
                calls[c].op \in CreateOps => calls[c].obj = Target
    /\ (pc = "raised" /\ error = "RuntimeError") => (calendars = <<>> /\ calendar = 0)

\* The first calendar's name differs from the configured one in case only,
\* the second has it exactly: both creates go to the second.
C16_Witness ==
    /\ pc = "done"
    /\ calendar_name = "Work"
    /\ Len(calendars) = 2
    /\ DisplayName(calendars[1]) = "work"
    /\ DisplayName(calendars[2]) = "Work"
    /\ calendar = 2
    /\ Len(actions) = 2
    /\ \A k \in 1..2 : actions[k].action = "created"
    /\ \A c \in 1..Len(calls) : calls[c].op \in CreateOps => calls[c].obj = 2

\* The decodable remote records that carry the id of local record k, and the
\* one of them enumerated last.
WithIdOf(k) == {obj \in 1..Len(before) : Decodable(obj) /\ before[obj].uid = todos[k].uid}
LastOf(k) == CHOOSE obj \in WithIdOf(k) : \A other \in WithIdOf(k) : other <= obj
SameAs(obj, k) ==
    /\ SpecTitle(before[obj].summary) = SpecTitle(todos[k].summary)
    /\ Instant(before[obj].due) = Instant(todos[k].due)

\* C17: when several decodable remote records carry one id, the map holds
\* the one enumerated last and nothing is raised or reported about the
\* others: a local record with that id is preserved when it equals that
\* last record in title and normalized due and marked when it differs from
\* it, whatever the earlier ones hold; write-back calls for it go to that
\* last record only, and the earlier ones are on the server what they were.
C17_LastDuplicateWins ==
    Fetched =>
        \A k \in Processed :
            (HasId(k) /\ WithIdOf(k) # {}) =>
                /\ InMap(k)
                /\ ObjOf(k) = LastOf(k)
                /\ actions[k].action \in
                      (IF SameAs(LastOf(k), k) THEN Family("preserve") ELSE Family("mark"))
                /\ \A c \in CallsFor(k) :
                      calls[c].op \in WriteOps /\ calls[c].obj = LastOf(k)
                /\ \A obj \in WithIdOf(k) \ {LastOf(k)} :
                      /\ store[obj] = before[obj]
                      /\ ~Mapped(obj)

\* Two records with id a: the local one equals the first and differs from
\* the last, and the last is the one marked.
C17_Witness ==
    /\ pc = "done"
    /\ Len(before) = 2
    /\ Len(todos) = 1
    /\ WithIdOf(1) = {1, 2}
    /\ SameAs(1, 1)
    /\ ~SameAs(2, 1)
    /\ before[1].status = "COMPLETED" /\ before[2].status = "COMPLETED"
    /\ actions[1].action = "set_needs_action"
    /\ store[2].status = NEEDS_ACTION
    /\ store[1] = before[1]

\* ---- claims about what a reported success means (Spec)
CreatedCalls(uid) ==
    {c \in 1..Len(calls) : /\ calls[c].op \in CreateOps
                            /\ calls[c].data.uid = uid
                            /\ calls[c].result = "ok"}

Mismatch(objs, k, obj) ==
    /\ HasId(k)
    /\ objs[obj].ok /\ objs[obj].uid = todos[k].uid
    /\ ~(/\ SpecTitle(objs[obj].summary) = SpecTitle(todos[k].summary)
          /\ Instant(objs[obj].due) = Instant(todos[k].due))

CreatedBefore(k) ==
    /\ pass > 1
    /\ todos[k].uid \notin {None, "a"}
    /\ UniqueId(k)
    /\ \E obj \in 1..Len(before) :
          Content(before[obj]) = [Content(todos[k]) EXCEPT !.status = before[obj].status]
PreservedAgain(k) ==
    /\ actions[k].action = "preserved_server_status"
    /\ CallsFor(k) = {}
    /\ \A obj \in 1..Len(before) :
          before[obj].uid = todos[k].uid => store[obj] = before[obj]

\* C20: when an earlier pass reported created for a local record (its id
\* being that of no other local record), and a following pass over the same
\* local todos fetches a calendar that still holds the record with the
\* title and due it was given, then that pass preserves it: no create call
\* and no other call is made for it, and the record is on the server what
\* it was when the pass started, with the status it then had.
C20_RerunPreserves ==
    (pc \in {"loop", "done"} /\ shape.todos) =>
        \A k \in Processed : CreatedBefore(k) => PreservedAgain(k)

====
